---- MODULE Spec2Model ----
(***************************************************************************)
(* Model of the domain registration bot (index.js): the retrying request   *)
(* executor performRequest, the wrappers checkDomainAvailability and       *)
(* registerDomain, the orchestrators registerSingleDomain,                 *)
(* performMultipleChecks and registerMultipleDomains, and                  *)
(* scheduleRegistration with the firings of its cron callback.             *)
(*                                                                         *)
(* Node runs every continuation to its next await before it handles the    *)
(* next transport response or timer, so one action is one transport        *)
(* response (or one elapsed timer) together with all the code that runs    *)
(* until every async function involved is suspended again or has settled.  *)
(* JavaScript arrays are 0-based; sequences here are 1-based, so the       *)
(* source's index i is i+1 below.                                          *)
(***************************************************************************)
EXTENDS Integers, Sequences, FiniteSets, TLC

VARIABLES
  env,      \* process.env as read when the module is loaded
  mode,     \* which exported function the driver has called ("idle": none yet):
            \* "request", "check", "register", "multi", "single", "many", "schedule"
  domains,  \* the domain argument(s) of that call, as a sequence
  checks,   \* checks[s]: the checkDomainAvailability / raw performRequest call of slot s
  regs,     \* regs[s]: the registerDomain call of slot s
  pc,       \* where the called function is: "idle", "checks", "register", "done"
  i,        \* registerMultipleDomains: the loop index (1-based)
  results,  \* registerMultipleDomains: the array Promise.all resolved with
  log,      \* the info/error records of the orchestrators, in order
  outcome,  \* the promise the called function returned to the driver
  jobs,     \* the callbacks registered with cron.schedule, in order
  firings,  \* firings[f]: the registerSingleDomain call the f-th firing made
  regDetails \* the registrationDetails argument of the call (no keys: none given)

vars ==
  <<env, mode, domains, checks, regs, pc, i, results, log, outcome, jobs, firings,
    regDetails>>

----------------------------------------------------------------------------
(* Bounds of the model *)

\* longest domain list handed to registerMultipleDomains
MaxDomains == 2

\* the domain names the driver picks from
Domains == {"a.com", "b.com"}

\* settings of the environment variables, as character sequences;
\* Unset is what parseInt sees for a variable that is not set
Unset == <<"u", "n", "d", "e", "f", "i", "n", "e", "d">>
EnvValues == {Unset, <<"a", "b", "c">>, <<"0">>, <<"-", "1">>, <<"1">>, <<"2">>, <<"3">>, <<"3", "x">>}

\* the settings tried with a batch and with a single domain
BatchEnvValues == {<<"2">>, <<"-", "1">>}
SingleEnvValues == {Unset, <<"2">>, <<"-", "1">>}

\* the setting tried with a schedule, its time expressions and the
\* registration details, and how many times the schedule fires
ScheduleEnvValues == {<<"1">>}
CronTimes == {"* * * * *"}
Details == {[apikey |-> "dummy", user |-> "dummy"]}

\* the registration details tried with registerDomain and
\* registerSingleDomain: the same, and details that name a domain
RegistrationDetails == Details \cup {[domain |-> "b.com"]}
MaxFirings == 2

\* the environments tried: every MAX_RETRIES setting with RETRY_DELAY unset,
\* and two RETRY_DELAY settings
Environments ==
  {[MAX_RETRIES |-> v, RETRY_DELAY |-> Unset] : v \in EnvValues}
    \cup {[MAX_RETRIES |-> <<"3">>, RETRY_DELAY |-> d] : d \in {<<"5", "0">>, <<"0">>}}

----------------------------------------------------------------------------
(* JavaScript values *)

Undefined == [t |-> "undefined"]
Obj(fields) == [t |-> "object", f |-> fields]
Error(message) == [t |-> "error", message |-> message]
Arr(items) == [t |-> "array", items |-> items]

\* `${value}` in a template literal
TemplateString(v) ==
  IF v.t = "undefined" THEN "undefined"
  ELSE IF v.t = "object" THEN "[object Object]"
  ELSE "Error: " \o v.message

Pending == [state |-> "pending", value |-> Undefined]
Fulfilled(v) == [state |-> "fulfilled", value |-> v]
Rejected(e) == [state |-> "rejected", value |-> e]

----------------------------------------------------------------------------
(* Configuration: parseInt(process.env.RETRY_DELAY, 10) || 200 and         *)
(* parseInt(process.env.MAX_RETRIES, 10) || 5                               *)

NaN == [nan |-> TRUE, n |-> 0]
Num(n) == [nan |-> FALSE, n |-> n]

DigitChars == {"0", "1", "2", "3", "4", "5", "6", "7", "8", "9"}

DigitValue(c) ==
  CASE c = "0" -> 0 [] c = "1" -> 1 [] c = "2" -> 2 [] c = "3" -> 3 [] c = "4" -> 4
    [] c = "5" -> 5 [] c = "6" -> 6 [] c = "7" -> 7 [] c = "8" -> 8 [] c = "9" -> 9

\* value of the longest prefix of digits of s, acc being the value read so far
RECURSIVE DigitsPrefix(_, _)
DigitsPrefix(s, acc) ==
  IF s = <<>> \/ Head(s) \notin DigitChars THEN acc
  ELSE DigitsPrefix(Tail(s), 10 * acc + DigitValue(Head(s)))

\* parseInt(s, 10): optional sign, then digits up to the first other character
ParseInt(s) ==
  LET signed == s # <<>> /\ Head(s) \in {"-", "+"}
      rest == IF signed THEN Tail(s) ELSE s
  IN IF rest = <<>> \/ Head(rest) \notin DigitChars THEN NaN
     ELSE IF signed /\ Head(s) = "-" THEN Num(0 - DigitsPrefix(rest, 0))
     ELSE Num(DigitsPrefix(rest, 0))

\* x || d for a number x: NaN and 0 are falsy
OrDefault(x, d) == IF x.nan \/ x.n = 0 THEN d ELSE x.n

DefaultRetryDelay == 200
DefaultMaxRetries == 5

retryDelay == OrDefault(ParseInt(env.RETRY_DELAY), DefaultRetryDelay)

\* MAX_RETRIES falling back to 3
MAX_RETRIES_Three == OrDefault(ParseInt(env.MAX_RETRIES), 3)

MAX_RETRIES == OrDefault(ParseInt(env.MAX_RETRIES), DefaultMaxRetries)

----------------------------------------------------------------------------
(* Transport adapter: hexonetApi(requestConfig) *)

\* the ways one attempt fails: no response, or an error response
Failures ==
  { [kind |-> "network", status |-> 0, bodyMessage |-> ""],
    [kind |-> "http", status |-> 500, bodyMessage |-> "Internal Server Error"] }

\* no attempt of the call has failed yet
NoFailure == [kind |-> "none", status |-> 0, bodyMessage |-> ""]

\* error.message of the rejection the HTTP client produces
ErrorMessage(failure) ==
  IF failure.kind = "network" THEN "Network Error"
  ELSE "Request failed with status code " \o ToString(failure.status)

\* response.data of a successful availability check
CheckBodies ==
  { Obj([status |-> "available"]), Obj([status |-> "unavailable"]),
    Obj([status |-> "pending"]), Obj([result |-> "ok"]), Undefined }

\* response.data of a successful registration
RegBodies == { Obj([result |-> "success"]) }

----------------------------------------------------------------------------
(* performRequest *)

AttemptLog(n, message) ==
  [level |-> "error", event |-> "Request failed", n |-> n, detail |-> message]

TerminalLog(n, message) ==
  [level |-> "error", event |-> "Failed after", n |-> n, detail |-> message]

ExhaustedMessage(n, message) ==
  "Failed after " \o ToString(n) \o " retries: " \o message

\* A call that has not been made.  op, domain: the function called and its
\* domain; phase: "request" (awaiting the transport), "delay" (awaiting the
\* timer), "done"; retryCount: the local of performRequest; logs: what the
\* call has logged; pr: the promise of performRequest; promise: the promise
\* of the wrapper the caller awaits.  The rest records what happened:
\* invocations (times the slot's function was called), attempts (requests
\* handed to the transport), failed, lastFailure, responded, response (what
\* the transport answered), delays (timers started), trace (the events of
\* the call in the order they happened).  data: the data of the request
\* configuration, keys to values (a check request has none).
NoCall ==
  [op |-> "none", domain |-> "", phase |-> "idle", retryCount |-> 0, logs |-> <<>>,
   pr |-> Pending, promise |-> Pending, data |-> <<>>,
   invocations |-> 0, attempts |-> 0, failed |-> 0, lastFailure |-> NoFailure,
   responded |-> FALSE, response |-> Undefined, delays |-> 0, trace |-> <<>>]

\* an event of a call: "attempt" n (the n-th request handed to the
\* transport), "failed" n (the n-th rejection by the transport), "response",
\* "log" n (the record of attempt n), "delay" ms (timer started), "timer" ms
\* (timer fired), "terminal" n (the record of giving up), "throw", "return"
Ev(e, n) == [e |-> e, n |-> n]

\* while (retryCount < MAX_RETRIES)
LoopCondition(retryCount) == retryCount < MAX_RETRIES

\* performRequest up to its first await: the loop is entered and the first
\* attempt is issued, or the loop is skipped and the function returns undefined
EnterPerformRequest(op, domain) ==
  IF LoopCondition(0)
  THEN [NoCall EXCEPT !.op = op, !.domain = domain, !.invocations = 1,
                      !.phase = "request", !.attempts = 1,
                      !.trace = <<Ev("attempt", 1)>>]
  ELSE [NoCall EXCEPT !.op = op, !.domain = domain, !.invocations = 1,
                      !.phase = "done", !.pr = Fulfilled(Undefined),
                      !.trace = <<Ev("return", 0)>>]

\* try branch: return response.data
OnResponse(c, body) ==
  [c EXCEPT !.phase = "done", !.pr = Fulfilled(body),
            !.trace = Append(c.trace, Ev("return", 0))]

\* if (retryCount >= MAX_RETRIES)
Exhausted(retryCount) == retryCount >= MAX_RETRIES

\* OnError with the delay left out: the next attempt is issued at once
OnErrorNoDelay(c, failure) ==
  LET n == c.retryCount + 1
      message == ErrorMessage(failure)
      logged == Append(c.logs, AttemptLog(n, message))
  IN IF Exhausted(n)
     THEN [c EXCEPT !.retryCount = n, !.phase = "done",
                    !.logs = Append(logged, TerminalLog(MAX_RETRIES, message)),
                    !.pr = Rejected(Error(ExhaustedMessage(MAX_RETRIES, message)))]
     ELSE [c EXCEPT !.retryCount = n, !.phase = "request", !.logs = logged,
                    !.attempts = c.attempts + 1]

\* OnError reporting the first failure of the call instead of the latest
OnErrorFirstMessage(c, failure) ==
  LET n == c.retryCount + 1
      message == ErrorMessage(failure)
      first == IF c.logs = <<>> THEN message ELSE c.logs[1].detail
      logged == Append(c.logs, AttemptLog(n, message))
  IN IF Exhausted(n)
     THEN [c EXCEPT !.retryCount = n, !.phase = "done",
                    !.logs = Append(logged, TerminalLog(MAX_RETRIES, first)),
                    !.pr = Rejected(Error(ExhaustedMessage(MAX_RETRIES, first)))]
     ELSE [c EXCEPT !.retryCount = n, !.phase = "delay",
                    !.logs = logged, !.delays = c.delays + 1]

\* OnError giving up at once on an error response, retrying only when no
\* response was received
OnErrorHttpFatal(c, failure) ==
  LET n == c.retryCount + 1
      message == ErrorMessage(failure)
      logged == Append(c.logs, AttemptLog(n, message))
  IN IF Exhausted(n) \/ failure.kind = "http"
     THEN [c EXCEPT !.retryCount = n, !.phase = "done",
                    !.logs = Append(logged, TerminalLog(MAX_RETRIES, message)),
                    !.pr = Rejected(Error(ExhaustedMessage(MAX_RETRIES, message)))]
     ELSE [c EXCEPT !.retryCount = n, !.phase = "delay",
                    !.logs = logged, !.delays = c.delays + 1]

\* OnError logging the attempt before counting it
OnErrorLogBeforeCount(c, failure) ==
  LET n == c.retryCount + 1
      message == ErrorMessage(failure)
      logged == Append(c.logs, AttemptLog(c.retryCount, message))
      traced == Append(c.trace, Ev("log", c.retryCount))
  IN IF Exhausted(n)
     THEN [c EXCEPT !.retryCount = n, !.phase = "done",
                    !.logs = Append(logged, TerminalLog(MAX_RETRIES, message)),
                    !.pr = Rejected(Error(ExhaustedMessage(MAX_RETRIES, message))),
                    !.trace = traced \o <<Ev("terminal", MAX_RETRIES), Ev("throw", 0)>>]
     ELSE [c EXCEPT !.retryCount = n, !.phase = "delay",
                    !.logs = logged, !.delays = c.delays + 1,
                    !.trace = Append(traced, Ev("delay", retryDelay))]

\* catch branch: count, log, then give up or start the delay
OnError(c, failure) ==
  LET n == c.retryCount + 1
      message == ErrorMessage(failure)
      logged == Append(c.logs, AttemptLog(n, message))
      traced == Append(c.trace, Ev("log", n))
  IN IF Exhausted(n)
     THEN [c EXCEPT !.retryCount = n, !.phase = "done",
                    !.logs = Append(logged, TerminalLog(MAX_RETRIES, message)),
                    !.pr = Rejected(Error(ExhaustedMessage(MAX_RETRIES, message))),
                    !.trace = traced \o <<Ev("terminal", MAX_RETRIES), Ev("throw", 0)>>]
     ELSE [c EXCEPT !.retryCount = n, !.phase = "delay",
                    !.logs = logged, !.delays = c.delays + 1,
                    !.trace = Append(traced, Ev("delay", retryDelay))]

\* OnTimer for a delay whose promise is never resolved
OnTimerStuck(c) == c

\* the delay's timer fires: back to the loop condition, then the next attempt
OnTimer(c) ==
  LET traced == Append(c.trace, Ev("timer", retryDelay))
  IN IF LoopCondition(c.retryCount)
     THEN [c EXCEPT !.phase = "request", !.attempts = c.attempts + 1,
                    !.trace = Append(traced, Ev("attempt", c.attempts + 1))]
     ELSE [c EXCEPT !.phase = "done", !.pr = Fulfilled(Undefined),
                    !.trace = Append(traced, Ev("return", 0))]

----------------------------------------------------------------------------
(* checkDomainAvailability and registerDomain: return await performRequest(...) *)

\* checkDomainAvailability swallowing the failure of its performRequest
CheckDomainAvailabilityCatching(pr) ==
  IF pr.state = "rejected" THEN Fulfilled(Undefined) ELSE pr

\* the promise of checkDomainAvailability, from that of its performRequest
CheckDomainAvailability(pr) == pr

\* the promise of registerDomain, from that of its performRequest
RegisterDomain(pr) == pr

\* the promise the caller of the call holds
Settle(c) ==
  [c EXCEPT !.promise = CASE c.op = "check" -> CheckDomainAvailability(c.pr)
                          [] c.op = "register" -> RegisterDomain(c.pr)
                          [] OTHER -> c.pr]

StartCall(op, domain) == Settle(EnterPerformRequest(op, domain))

\* the same, in a slot whose earlier calls are counted
StartCallIn(prev, op, domain) ==
  [StartCall(op, domain) EXCEPT !.invocations = prev.invocations + 1]

\* process.env.HEXONET_API_KEY and process.env.HEXONET_USER_ID
HEXONET_API_KEY == "configured-key"
HEXONET_USER_ID == "configured-user"

\* { ...base, ...over }: the keys of both, those of over winning
Spread(base, over) ==
  [k \in DOMAIN base \cup DOMAIN over |-> IF k \in DOMAIN over THEN over[k] ELSE base[k]]

\* data of registerDomain's request: { domain, apikey, user, ...registrationDetails }
RegisterData(domain, registrationDetails) ==
  Spread([domain |-> domain, apikey |-> HEXONET_API_KEY, user |-> HEXONET_USER_ID],
         registrationDetails)

\* registerDomain(domain, registrationDetails) called in a slot
StartRegisterDomain(prev, domain, registrationDetails) ==
  [StartCallIn(prev, "register", domain) EXCEPT
     !.data = RegisterData(domain, registrationDetails)]

InFlight(c) == c.phase \in {"request", "delay"}
Made(c) == c.op # "none"

----------------------------------------------------------------------------
(* The orchestrators' log records *)

RegisteredLog(domain, response) ==
  [level |-> "info", event |-> "registered successfully", domain |-> domain,
   detail |-> TemplateString(response)]

NotAvailableLog(domain) ==
  [level |-> "info", event |-> "is not available", domain |-> domain, detail |-> ""]

ErrorLog(domain, error) ==
  [level |-> "error", event |-> "Error registering domain", domain |-> domain,
   detail |-> error.message]

\* reading .status of undefined throws
StatusTypeError == Error("Cannot read properties of undefined (reading 'status')")

\* IsAvailable taking every status but "unavailable" for available
IsAvailableLoose(availability) ==
  "status" \in DOMAIN availability.f /\ availability.f.status # "unavailable"

\* availability.status === 'available', for an availability that is an object
IsAvailable(availability) ==
  "status" \in DOMAIN availability.f /\ availability.f.status = "available"

\* what the try block does once registerDomain has settled: log the success,
\* or (catch) log the error
AfterRegistration(domain, promise, lg) ==
  IF promise.state = "fulfilled"
  THEN Append(lg, RegisteredLog(domain, promise.value))
  ELSE Append(lg, ErrorLog(domain, promise.value))

----------------------------------------------------------------------------
(* The state of the called function, as one record *)

Cur ==
  [regs |-> regs, pc |-> pc, i |-> i, results |-> results, log |-> log,
   outcome |-> outcome, firings |-> firings, details |-> regDetails]

Becomes(o) ==
  /\ regs' = o.regs
  /\ pc' = o.pc
  /\ i' = o.i
  /\ results' = o.results
  /\ log' = o.log
  /\ outcome' = o.outcome
  /\ firings' = o.firings
  /\ regDetails' = o.details

\* an async function returns without a value
Returns(o) == [o EXCEPT !.pc = "done", !.outcome = Fulfilled(Undefined)]

----------------------------------------------------------------------------
(* registerSingleDomain *)

\* the awaited registerDomain has settled
SingleAfterRegister(o, domain, promise) ==
  Returns([o EXCEPT !.log = AfterRegistration(domain, promise, o.log)])

\* SingleAfterCheck without the catch: a failed check rejects the function
SingleAfterCheckUncaught(o, domain, promise) ==
  IF promise.state = "rejected"
  THEN [o EXCEPT !.pc = "done", !.outcome = Rejected(promise.value)]
  ELSE IF promise.value = Undefined
  THEN [o EXCEPT !.pc = "done", !.outcome = Rejected(StatusTypeError)]
  ELSE IF IsAvailable(promise.value)
  THEN LET c == StartRegisterDomain(o.regs[1], domain, o.details)
           started == [o EXCEPT !.regs[1] = c, !.pc = "register"]
       IN IF InFlight(c) THEN started
          ELSE SingleAfterRegister(started, domain, c.promise)
  ELSE Returns([o EXCEPT !.log = Append(o.log, NotAvailableLog(domain))])

\* the awaited checkDomainAvailability has settled
SingleAfterCheck(o, domain, promise) ==
  IF promise.state = "rejected"
  THEN Returns([o EXCEPT !.log = Append(o.log, ErrorLog(domain, promise.value))])
  ELSE IF promise.value = Undefined
  THEN Returns([o EXCEPT !.log = Append(o.log, ErrorLog(domain, StatusTypeError))])
  ELSE IF IsAvailable(promise.value)
  THEN LET c == StartRegisterDomain(o.regs[1], domain, o.details)
           started == [o EXCEPT !.regs[1] = c, !.pc = "register"]
       IN IF InFlight(c) THEN started
          ELSE SingleAfterRegister(started, domain, c.promise)
  ELSE Returns([o EXCEPT !.log = Append(o.log, NotAvailableLog(domain))])

----------------------------------------------------------------------------
(* scheduleRegistration *)

\* the callback handed to cron.schedule: its closure holds domain and
\* registrationDetails
Job(cronTime, domain, details) ==
  [cronTime |-> cronTime, domain |-> domain, details |-> details]

\* the registerSingleDomain call of one firing: its arguments, where it is,
\* and the promise it returned, which the callback drops
Firing(domain, details) ==
  [domain |-> domain, details |-> details, pc |-> "checks", outcome |-> Pending]

\* the registerSingleDomain call of firing f, as the called function
Local(o, f) ==
  [o EXCEPT !.regs = <<o.regs[f]>>, !.pc = o.firings[f].pc,
            !.outcome = o.firings[f].outcome, !.details = o.firings[f].details]

\* firing f after its registerSingleDomain call has run on
Merge(o, f, after) ==
  [o EXCEPT !.regs[f] = after.regs[1], !.log = after.log,
            !.firings[f].pc = after.pc, !.firings[f].outcome = after.outcome]

\* FiringAfterCheck for a registerSingleDomain without the catch
FiringAfterCheckUncaught(o, f, promise) ==
  Merge(o, f, SingleAfterCheckUncaught(Local(o, f), o.firings[f].domain, promise))

\* the check awaited by firing f has settled
FiringAfterCheck(o, f, promise) ==
  Merge(o, f, SingleAfterCheck(Local(o, f), o.firings[f].domain, promise))

\* the registration awaited by firing f has settled
FiringAfterRegister(o, f, promise) ==
  Merge(o, f, SingleAfterRegister(Local(o, f), o.firings[f].domain, promise))

----------------------------------------------------------------------------
(* performMultipleChecks and registerMultipleDomains *)

\* PromiseAll fulfilled as soon as one promise is, the others read as undefined
PromiseAllEarly(promises) ==
  LET idx == 1..Len(promises)
  IN IF \E k \in idx : promises[k].state = "rejected"
     THEN [state |-> "rejected", values |-> <<>>,
           reason |-> promises[CHOOSE k \in idx : promises[k].state = "rejected"].value]
     ELSE IF \E k \in idx : promises[k].state = "fulfilled"
     THEN [state |-> "fulfilled", values |-> [k \in idx |-> promises[k].value],
           reason |-> Undefined]
     ELSE [state |-> "pending", values |-> <<>>, reason |-> Undefined]

\* PromiseAll with the values in reverse order
PromiseAllReversed(promises) ==
  LET idx == 1..Len(promises)
  IN IF \E k \in idx : promises[k].state = "rejected"
     THEN [state |-> "rejected", values |-> <<>>,
           reason |-> promises[CHOOSE k \in idx : promises[k].state = "rejected"].value]
     ELSE IF \A k \in idx : promises[k].state = "fulfilled"
     THEN [state |-> "fulfilled",
           values |-> [k \in idx |-> promises[Len(promises) + 1 - k].value],
           reason |-> Undefined]
     ELSE [state |-> "pending", values |-> <<>>, reason |-> Undefined]

\* PromiseAll that stays pending when there is no promise to wait for
PromiseAllNonEmpty(promises) ==
  LET idx == 1..Len(promises)
  IN IF \E k \in idx : promises[k].state = "rejected"
     THEN [state |-> "rejected", values |-> <<>>,
           reason |-> promises[CHOOSE k \in idx : promises[k].state = "rejected"].value]
     ELSE IF idx # {} /\ \A k \in idx : promises[k].state = "fulfilled"
     THEN [state |-> "fulfilled", values |-> [k \in idx |-> promises[k].value],
           reason |-> Undefined]
     ELSE [state |-> "pending", values |-> <<>>, reason |-> Undefined]

\* Promise.all over promises of which at most one has settled since it was
\* last looked at: rejected with the reason of a rejected one, else fulfilled
\* with all the values once all are fulfilled
PromiseAll(promises) ==
  LET idx == 1..Len(promises)
  IN IF \E k \in idx : promises[k].state = "rejected"
     THEN [state |-> "rejected", values |-> <<>>,
           reason |-> promises[CHOOSE k \in idx : promises[k].state = "rejected"].value]
     ELSE IF \A k \in idx : promises[k].state = "fulfilled"
     THEN [state |-> "fulfilled", values |-> [k \in idx |-> promises[k].value],
           reason |-> Undefined]
     ELSE [state |-> "pending", values |-> <<>>, reason |-> Undefined]

\* a check has settled while performMultipleChecks, called by the driver,
\* awaits Promise.all
MultiAfterCheck(o, cs) ==
  LET all == PromiseAll([k \in 1..Len(cs) |-> cs[k].promise])
  IN IF o.pc # "checks" THEN o
     ELSE IF all.state = "rejected"
     THEN [o EXCEPT !.pc = "done", !.outcome = Rejected(all.reason)]
     ELSE IF all.state = "fulfilled"
     THEN [o EXCEPT !.pc = "done", !.outcome = Fulfilled(Arr(all.values))]
     ELSE o

\* the for loop from index k on, up to the await of a registerDomain that is
\* in flight, or to the end of the function
RECURSIVE RegisterLoop(_, _, _)

\* RegisterLoop without the await: every registration is started at once
RECURSIVE RegisterLoopNoAwait(_, _, _)
RegisterLoopNoAwait(k, doms, o) ==
  IF k > Len(doms) THEN [o EXCEPT !.i = k]
  ELSE IF o.results[k] = Undefined
  THEN RegisterLoopNoAwait(k + 1, doms,
         [o EXCEPT !.log = Append(o.log, ErrorLog(doms[k], StatusTypeError))])
  ELSE IF IsAvailable(o.results[k])
  THEN RegisterLoopNoAwait(k + 1, doms,
         [o EXCEPT !.regs[k] = StartRegisterDomain(o.regs[k], doms[k], o.details),
                   !.pc = "register"])
  ELSE RegisterLoopNoAwait(k + 1, doms,
         [o EXCEPT !.log = Append(o.log, NotAvailableLog(doms[k]))])

\* RegisterLoop passing over a domain that an earlier index already held
RECURSIVE RegisterLoopDedup(_, _, _)
RegisterLoopDedup(k, doms, o) ==
  IF k > Len(doms) THEN Returns([o EXCEPT !.i = k])
  ELSE IF \E j \in 1..(k - 1) : doms[j] = doms[k]
  THEN RegisterLoopDedup(k + 1, doms, o)
  ELSE IF o.results[k] = Undefined
  THEN RegisterLoopDedup(k + 1, doms,
         [o EXCEPT !.log = Append(o.log, ErrorLog(doms[k], StatusTypeError))])
  ELSE IF IsAvailable(o.results[k])
  THEN LET c == StartRegisterDomain(o.regs[k], doms[k], o.details)
           started == [o EXCEPT !.regs[k] = c, !.pc = "register", !.i = k]
       IN IF InFlight(c) THEN started
          ELSE RegisterLoopDedup(k + 1, doms,
                 [started EXCEPT !.log = AfterRegistration(doms[k], c.promise, started.log)])
  ELSE RegisterLoopDedup(k + 1, doms,
         [o EXCEPT !.log = Append(o.log, NotAvailableLog(doms[k]))])

\* ResumeLoop with the catch outside the loop: a failed registration ends it
ResumeLoopUncaught(k, doms, o) ==
  IF o.regs[k].promise.state = "rejected"
  THEN [o EXCEPT !.pc = "done", !.outcome = Rejected(o.regs[k].promise.value)]
  ELSE RegisterLoop(k + 1, doms,
         [o EXCEPT !.log = AfterRegistration(doms[k], o.regs[k].promise, o.log)])

\* the awaited registerDomain of index k has settled
ResumeLoop(k, doms, o) ==
  RegisterLoop(k + 1, doms,
               [o EXCEPT !.log = AfterRegistration(doms[k], o.regs[k].promise, o.log)])

RegisterLoop(k, doms, o) ==
  IF k > Len(doms) THEN Returns([o EXCEPT !.i = k])
  ELSE IF o.results[k] = Undefined
  THEN RegisterLoop(k + 1, doms,
                    [o EXCEPT !.log = Append(o.log, ErrorLog(doms[k], StatusTypeError))])
  ELSE IF IsAvailable(o.results[k])
  THEN LET c == StartRegisterDomain(o.regs[k], doms[k], o.details)
           started == [o EXCEPT !.regs[k] = c, !.pc = "register", !.i = k]
       IN IF InFlight(c) THEN started ELSE ResumeLoop(k, doms, started)
  ELSE RegisterLoop(k + 1, doms,
                    [o EXCEPT !.log = Append(o.log, NotAvailableLog(doms[k]))])

\* a check has settled while registerMultipleDomains awaits performMultipleChecks
ManyAfterCheck(o, doms, cs) ==
  LET all == PromiseAll([k \in 1..Len(cs) |-> cs[k].promise])
  IN IF o.pc # "checks" THEN o
     ELSE IF all.state = "rejected"
     THEN [o EXCEPT !.pc = "done", !.outcome = Rejected(all.reason)]
     ELSE IF all.state = "fulfilled"
     THEN RegisterLoop(1, doms, [o EXCEPT !.results = all.values])
     ELSE o

----------------------------------------------------------------------------
(* The driver calls one exported function *)

Init ==
  /\ env \in Environments
  /\ mode = "idle"
  /\ domains = <<>>
  /\ checks = <<>>
  /\ regs = <<>>
  /\ pc = "idle"
  /\ i = 0
  /\ results = <<>>
  /\ log = <<>>
  /\ outcome = Pending
  /\ jobs = <<>>
  /\ firings = <<>>
  /\ regDetails = <<>>

\* a function whose promise is that of the one call it makes
Direct(o, c) ==
  IF InFlight(c) THEN [o EXCEPT !.pc = "checks"]
  ELSE [o EXCEPT !.pc = "done", !.outcome = c.promise]

CallPerformRequest(d) ==
  /\ mode = "idle"
  /\ mode' = "request"
  /\ domains' = <<d>>
  /\ LET c == StartCall("request", d)
     IN /\ checks' = <<c>>
        /\ Becomes(Direct([Cur EXCEPT !.regs = <<NoCall>>], c))
  /\ UNCHANGED <<env, jobs>>

CallCheckDomainAvailability(d) ==
  /\ mode = "idle"
  /\ mode' = "check"
  /\ domains' = <<d>>
  /\ LET c == StartCall("check", d)
     IN /\ checks' = <<c>>
        /\ Becomes(Direct([Cur EXCEPT !.regs = <<NoCall>>], c))
  /\ UNCHANGED <<env, jobs>>

CallRegisterDomain(d, det) ==
  /\ mode = "idle"
  /\ mode' = "register"
  /\ domains' = <<d>>
  /\ LET c == StartRegisterDomain(NoCall, d, det)
     IN /\ checks' = <<NoCall>>
        /\ Becomes(Direct([Cur EXCEPT !.regs = <<c>>, !.details = det], c))
  /\ UNCHANGED <<env, jobs>>

CallRegisterSingleDomain(d, det) ==
  /\ mode = "idle"
  /\ env.MAX_RETRIES \in SingleEnvValues
  /\ mode' = "single"
  /\ domains' = <<d>>
  /\ LET c == StartCall("check", d)
         o == [Cur EXCEPT !.regs = <<NoCall>>, !.pc = "checks", !.details = det]
     IN /\ checks' = <<c>>
        /\ Becomes(IF InFlight(c) THEN o ELSE SingleAfterCheck(o, d, c.promise))
  /\ UNCHANGED <<env, jobs>>

CallPerformMultipleChecks(ds) ==
  /\ mode = "idle"
  /\ env.MAX_RETRIES \in BatchEnvValues
  /\ mode' = "multi"
  /\ domains' = ds
  /\ LET cs == [k \in 1..Len(ds) |-> StartCall("check", ds[k])]
         o == [Cur EXCEPT !.regs = [k \in 1..Len(ds) |-> NoCall], !.pc = "checks"]
     IN /\ checks' = cs
        /\ Becomes(MultiAfterCheck(o, cs))
  /\ UNCHANGED <<env, jobs>>

CallRegisterMultipleDomains(ds, det) ==
  /\ mode = "idle"
  /\ env.MAX_RETRIES \in BatchEnvValues
  /\ mode' = "many"
  /\ domains' = ds
  /\ LET cs == [k \in 1..Len(ds) |-> StartCall("check", ds[k])]
         o == [Cur EXCEPT !.regs = [k \in 1..Len(ds) |-> NoCall], !.pc = "checks",
                          !.details = det]
     IN /\ checks' = cs
        /\ Becomes(ManyAfterCheck(o, ds, cs))
  /\ UNCHANGED <<env, jobs>>

\* scheduleRegistration: hand the callback to cron.schedule and return
CallScheduleRegistration(t, d, details) ==
  /\ mode = "idle"
  /\ env.MAX_RETRIES \in ScheduleEnvValues
  /\ mode' = "schedule"
  /\ domains' = <<d>>
  /\ jobs' = Append(jobs, Job(t, d, details))
  /\ Becomes([Cur EXCEPT !.pc = "done", !.details = details])
  /\ UNCHANGED <<env, checks>>

\* Fire for a schedule that skips a firing while an earlier one is running
FireSerialized(j) ==
  /\ mode = "schedule"
  /\ Len(firings) < MaxFirings
  /\ \A f \in DOMAIN firings : firings[f].pc = "done"
  /\ LET job == jobs[j]
         f == Len(firings) + 1
         c == StartCall("check", job.domain)
         o == [Cur EXCEPT !.regs = Append(regs, NoCall),
                          !.firings = Append(firings, Firing(job.domain, job.details))]
     IN /\ checks' = Append(checks, c)
        /\ Becomes(IF InFlight(c) THEN o ELSE FiringAfterCheck(o, f, c.promise))
  /\ UNCHANGED <<env, mode, domains, jobs>>

\* cron runs the callback of job j: it calls registerSingleDomain with the
\* domain and the details of its closure and drops the promise
Fire(j) ==
  /\ mode = "schedule"
  /\ Len(firings) < MaxFirings
  /\ LET job == jobs[j]
         f == Len(firings) + 1
         c == StartCall("check", job.domain)
         o == [Cur EXCEPT !.regs = Append(regs, NoCall),
                          !.firings = Append(firings, Firing(job.domain, job.details))]
     IN /\ checks' = Append(checks, c)
        /\ Becomes(IF InFlight(c) THEN o ELSE FiringAfterCheck(o, f, c.promise))
  /\ UNCHANGED <<env, mode, domains, jobs>>

----------------------------------------------------------------------------
(* The transport answers an attempt, or a delay ends *)

\* AfterCheckStep with retryCount kept in one variable shared by all calls
AfterCheckStepShared(s, c) ==
  LET cs == [t \in DOMAIN checks |->
               IF t = s THEN c
               ELSE IF InFlight(checks[t])
               THEN [checks[t] EXCEPT !.retryCount = c.retryCount]
               ELSE checks[t]]
  IN /\ checks' = cs
     /\ IF InFlight(c) THEN UNCHANGED <<regs, pc, i, results, log, outcome, firings, regDetails>>
        ELSE CASE mode = "single" -> Becomes(SingleAfterCheck(Cur, domains[s], c.promise))
               [] mode = "many" -> Becomes(ManyAfterCheck(Cur, domains, cs))
               [] mode = "multi" -> Becomes(MultiAfterCheck(Cur, cs))
               [] mode = "schedule" -> Becomes(FiringAfterCheck(Cur, s, c.promise))
               [] OTHER -> Becomes(Direct(Cur, c))
     /\ UNCHANGED <<env, mode, domains, jobs>>

\* the code that runs once the call of slot s in checks has made a step
AfterCheckStep(s, c) ==
  LET cs == [checks EXCEPT ![s] = c]
  IN /\ checks' = cs
     /\ IF InFlight(c) THEN UNCHANGED <<regs, pc, i, results, log, outcome, firings, regDetails>>
        ELSE CASE mode = "single" -> Becomes(SingleAfterCheck(Cur, domains[s], c.promise))
               [] mode = "many" -> Becomes(ManyAfterCheck(Cur, domains, cs))
               [] mode = "multi" -> Becomes(MultiAfterCheck(Cur, cs))
               [] mode = "schedule" -> Becomes(FiringAfterCheck(Cur, s, c.promise))
               [] OTHER -> Becomes(Direct(Cur, c))
     /\ UNCHANGED <<env, mode, domains, jobs>>

\* the code that runs once the call of slot s in regs has made a step
AfterRegStep(s, c) ==
  LET o == [Cur EXCEPT !.regs[s] = c]
  IN /\ IF InFlight(c) THEN Becomes(o)
        ELSE CASE mode = "single" -> Becomes(SingleAfterRegister(o, domains[s], c.promise))
               [] mode = "many" -> Becomes(ResumeLoop(s, domains, o))
               [] mode = "schedule" -> Becomes(FiringAfterRegister(o, s, c.promise))
               [] OTHER -> Becomes(Direct(o, c))
     /\ UNCHANGED <<env, mode, domains, checks, jobs>>

\* what the transport answered, recorded in the call
Answered(c, body) ==
  [c EXCEPT !.responded = TRUE, !.response = body,
            !.trace = Append(c.trace, Ev("response", c.attempts))]

Refused(c, failure) ==
  [c EXCEPT !.failed = c.failed + 1, !.lastFailure = failure,
            !.trace = Append(c.trace, Ev("failed", c.failed + 1))]

CheckResponds(s, body) ==
  /\ checks[s].phase = "request"
  /\ AfterCheckStep(s, Settle(OnResponse(Answered(checks[s], body), body)))

CheckFails(s, failure) ==
  /\ checks[s].phase = "request"
  /\ AfterCheckStep(s, Settle(OnError(Refused(checks[s], failure), failure)))

CheckTimer(s) ==
  /\ checks[s].phase = "delay"
  /\ AfterCheckStep(s, Settle(OnTimer(checks[s])))

RegResponds(s, body) ==
  /\ regs[s].phase = "request"
  /\ AfterRegStep(s, Settle(OnResponse(Answered(regs[s], body), body)))

RegFails(s, failure) ==
  /\ regs[s].phase = "request"
  /\ AfterRegStep(s, Settle(OnError(Refused(regs[s], failure), failure)))

RegTimer(s) ==
  /\ regs[s].phase = "delay"
  /\ AfterRegStep(s, Settle(OnTimer(regs[s])))

\* the domain lists the driver hands to registerMultipleDomains
\* (the code never looks into a name, so the first one is fixed)
DomainLists ==
  {ds \in UNION { [1..n -> Domains] : n \in 0..MaxDomains } :
     ds = <<>> \/ ds[1] = "a.com"}

\* the transport answers an attempt or a timer fires
Progress ==
  \/ \E s \in DOMAIN checks, body \in CheckBodies : CheckResponds(s, body)
  \/ \E s \in DOMAIN checks, failure \in Failures : CheckFails(s, failure)
  \/ \E s \in DOMAIN checks : CheckTimer(s)
  \/ \E s \in DOMAIN regs, body \in RegBodies : RegResponds(s, body)
  \/ \E s \in DOMAIN regs, failure \in Failures : RegFails(s, failure)
  \/ \E s \in DOMAIN regs : RegTimer(s)

Next ==
  \/ \E d \in Domains : CallPerformRequest(d)
  \/ \E d \in Domains : CallCheckDomainAvailability(d)
  \/ \E d \in Domains, det \in RegistrationDetails : CallRegisterDomain(d, det)
  \/ \E d \in Domains, det \in RegistrationDetails : CallRegisterSingleDomain(d, det)
  \/ \E ds \in DomainLists : CallPerformMultipleChecks(ds)
  \/ \E ds \in DomainLists, det \in Details : CallRegisterMultipleDomains(ds, det)
  \/ \E t \in CronTimes, d \in Domains, details \in Details :
       CallScheduleRegistration(t, d, details)
  \/ \E j \in DOMAIN jobs : Fire(j)
  \/ Progress

Spec == Init /\ [][Next]_vars

\* the domain lists of the runs checked for termination
FairDomainLists ==
  {<<>>, <<"a.com">>, <<"a.com", "a.com">>, <<"a.com", "b.com">>}

FairNext ==
  \/ \E d \in Domains : CallPerformRequest(d)
  \/ \E d \in Domains : CallCheckDomainAvailability(d)
  \/ \E d \in Domains, det \in RegistrationDetails : CallRegisterDomain(d, det)
  \/ \E d \in Domains, det \in RegistrationDetails : CallRegisterSingleDomain(d, det)
  \/ \E ds \in FairDomainLists : CallPerformMultipleChecks(ds)
  \/ \E ds \in FairDomainLists, det \in Details : CallRegisterMultipleDomains(ds, det)
  \/ Progress

\* every attempt is eventually answered, with a response or an error, and
\* every timer eventually fires
FairSpec == Init /\ [][FairNext]_vars /\ WF_vars(Progress)

----------------------------------------------------------------------------
(* Properties *)

Slots == DOMAIN checks

\* the calls that have been made
MadeCalls == {c \in {checks[s] : s \in Slots} \cup {regs[s] : s \in Slots} : Made(c)}

\* how many records of the given event the call has logged
CountLogs(c, event) == Cardinality({k \in DOMAIN c.logs : c.logs[k].event = event})

Settled(c) == Made(c) /\ ~InFlight(c)

\* no call is awaiting the transport or a timer
Quiescent == \A s \in Slots : ~InFlight(checks[s]) /\ ~InFlight(regs[s])

\* the check of slot s answered with status "available"
ReportedAvailable(s) ==
  /\ checks[s].responded
  /\ checks[s].response = Obj([status |-> "available"])

ErrorLogsFor(d) ==
  {k \in DOMAIN log : log[k].level = "error" /\ log[k].domain = d}

\* C1: in registerMultipleDomains a check that exhausts its retries is caught
\* and logged with its domain, the function does not reject, and once
\* everything has settled it has returned and every other domain reported
\* available has had its registration issued.
C1_CheckFailureIsolated ==
  mode = "many" =>
    \A s \in Slots :
      checks[s].promise.state = "rejected" =>
        /\ outcome.state # "rejected"
        /\ ErrorLogsFor(domains[s]) # {}
        /\ Quiescent =>
             /\ outcome.state = "fulfilled"
             /\ \A t \in Slots : ReportedAvailable(t) => Made(regs[t])

\* C2: registerSingleDomain never rejects; once it is done it has returned
\* normally with exactly one log record, and when its check or its
\* registration failed that record is the error record of its domain.
C2_SingleNeverFailsOutward ==
  mode = "single" =>
    /\ outcome.state # "rejected"
    /\ Quiescent => pc = "done"
    /\ pc = "done" => outcome = Fulfilled(Undefined) /\ Len(log) = 1
    /\ \A k \in DOMAIN log : log[k].domain = domains[1]
    /\ Cardinality(ErrorLogsFor(domains[1])) <= 1
    /\ checks[1].promise.state = "rejected" =>
         log = <<ErrorLog(domains[1], checks[1].promise.value)>>
    /\ regs[1].promise.state = "rejected" =>
         log = <<ErrorLog(domains[1], regs[1].promise.value)>>

\* a registerSingleDomain whose registration exhausted its retries has returned
C2_Witness ==
  /\ mode = "single"
  /\ regs[1].failed = MAX_RETRIES
  /\ regs[1].promise.state = "rejected"
  /\ outcome.state = "fulfilled"

\* C3: a call answered after k failed attempts has k < MAX_RETRIES, made k+1
\* attempts, logged k failed-attempt records and nothing else, waited k
\* delays, and its promise is fulfilled with the body of the answer.
C3_RetryThenSuccess ==
  \A c \in MadeCalls :
    c.responded =>
      /\ c.failed < MAX_RETRIES
      /\ c.attempts = c.failed + 1
      /\ CountLogs(c, "Request failed") = c.failed
      /\ CountLogs(c, "Failed after") = 0
      /\ Len(c.logs) = c.failed
      /\ c.delays = c.failed
      /\ c.pr = Fulfilled(c.response)

\* a call answered on its third attempt
C3_Witness ==
  \E c \in MadeCalls :
    c.responded /\ c.failed = 2 /\ c.pr.value = Obj([status |-> "available"])

\* C4: a call whose attempts failed MAX_RETRIES times is rejected with
\* "Failed after MAX_RETRIES retries: " and the message of the latest failure,
\* has logged MAX_RETRIES failed-attempt records and then one terminal record
\* with that message, and has made no further attempt.
C4_Exhaustion ==
  \A c \in MadeCalls :
    /\ MAX_RETRIES > 0 => c.attempts <= MAX_RETRIES /\ c.failed <= MAX_RETRIES
    /\ (c.failed > 0 /\ c.failed = MAX_RETRIES) =>
         /\ c.phase = "done"
         /\ ~c.responded
         /\ c.attempts = MAX_RETRIES
         /\ c.pr = Rejected(Error(ExhaustedMessage(MAX_RETRIES,
                                                   ErrorMessage(c.lastFailure))))
         /\ CountLogs(c, "Request failed") = MAX_RETRIES
         /\ CountLogs(c, "Failed after") = 1
         /\ Len(c.logs) = MAX_RETRIES + 1
         /\ c.logs[Len(c.logs)] =
              TerminalLog(MAX_RETRIES, ErrorMessage(c.lastFailure))

\* an exhausted call whose first failure was not of the kind of its last
C4_Witness ==
  \E c \in MadeCalls :
    /\ c.failed = MAX_RETRIES
    /\ c.logs[1].detail = "Request failed with status code 500"
    /\ c.pr = Rejected(Error("Failed after 3 retries: Network Error"))

\* C5: in registerMultipleDomains no registration is started before the
\* checks of all domains of the batch have completed.
C5_ChecksBeforeRegistrations ==
  mode = "many" =>
    \A s \in Slots :
      Made(regs[s]) =>
        \A t \in Slots : checks[t].phase = "done" /\ checks[t].promise.state = "fulfilled"

\* a registration under way after checks that took different numbers of attempts
C5_Witness ==
  /\ mode = "many"
  /\ Len(domains) = 2
  /\ InFlight(regs[2])
  /\ checks[1].failed = 1
  /\ checks[2].failed = 0

\* C6: registerMultipleDomains neither goes on to its loop nor settles while
\* one of its checks is still in progress, also after another check failed.
C6_ChecksJoined ==
  (mode = "many" /\ pc # "checks") => \A s \in Slots : ~InFlight(checks[s])

\* C7: registrations of a batch run one at a time in input order: when the
\* registration of index j has been started, every earlier index has been
\* dealt with (its record logged, its registration, if due, settled), and at
\* most one registration is in flight.
C7_SequentialRegistrations ==
  mode = "many" =>
    /\ Cardinality({s \in Slots : InFlight(regs[s])}) <= 1
    /\ \A j \in Slots :
         Made(regs[j]) =>
           /\ regs[j].invocations = 1
           /\ \A k \in 1..(j - 1) :
                /\ ReportedAvailable(k) => Settled(regs[k])
                /\ Len(log) >= k /\ log[k].domain = domains[k]

\* the second registration is in flight after the first one failed and was logged
C7_Witness ==
  /\ mode = "many"
  /\ Len(domains) = 2
  /\ regs[1].promise.state = "rejected"
  /\ InFlight(regs[2])

\* C8: a registration of index s that exhausts its retries is logged as the
\* error record of domain s, does not reject registerMultipleDomains, and
\* every later index is still dealt with: registered if reported available,
\* logged otherwise; the function then returns normally.
C8_RegistrationFailureIsolated ==
  mode = "many" =>
    \A s \in Slots :
      regs[s].promise.state = "rejected" =>
        /\ outcome.state # "rejected"
        /\ log[s] = ErrorLog(domains[s], regs[s].promise.value)
        /\ Quiescent =>
             /\ pc = "done"
             /\ outcome = Fulfilled(Undefined)
             /\ Len(log) = Len(domains)
             /\ \A t \in (s + 1)..Len(domains) :
                  /\ log[t].domain = domains[t]
                  /\ IF ReportedAvailable(t) THEN Settled(regs[t])
                     ELSE ~Made(regs[t]) /\ log[t].event # "registered successfully"

\* the first registration failed, the second succeeded, the batch returned
C8_Witness ==
  /\ mode = "many"
  /\ Len(domains) = 2
  /\ regs[1].promise.state = "rejected"
  /\ regs[2].promise.state = "fulfilled"
  /\ outcome.state = "fulfilled"

\* C9: a registration is started only for a domain whose own check answered
\* with status exactly "available", and at most once; registerSingleDomain
\* starts it whenever the check so answered, and a registerMultipleDomains
\* that returned after all its checks were answered started it for exactly
\* the domains reported available.
C9_RegisterIffAvailable ==
  /\ mode = "single" =>
       /\ Made(regs[1]) <=> ReportedAvailable(1)
       /\ regs[1].invocations <= 1
  /\ mode = "many" =>
       \A s \in Slots :
         /\ Made(regs[s]) => ReportedAvailable(s)
         /\ regs[s].invocations <= 1
         /\ (outcome.state = "fulfilled" /\ \A t \in Slots : checks[t].responded) =>
              (Made(regs[s]) <=> ReportedAvailable(s))

\* a batch that returned having registered its first domain and skipped the
\* second, whose check answered without a status
C9_Witness ==
  /\ mode = "many"
  /\ Len(domains) = 2
  /\ outcome.state = "fulfilled"
  /\ regs[1].responded
  /\ checks[2].responded
  /\ checks[2].response = Obj([result |-> "ok"])
  /\ ~Made(regs[2])

\* C10: checkDomainAvailability and registerDomain settle as their
\* performRequest does: rejected with the exhaustion error when MAX_RETRIES
\* attempts failed, fulfilled with the answered body otherwise, and a driver
\* that called one of them gets that very promise.
C10_WrappersPropagate ==
  /\ \A c \in MadeCalls :
       c.op \in {"check", "register"} =>
         /\ (c.failed > 0 /\ c.failed = MAX_RETRIES) =>
              c.promise = Rejected(Error(ExhaustedMessage(MAX_RETRIES,
                                                          ErrorMessage(c.lastFailure))))
         /\ c.responded => c.promise = Fulfilled(c.response)
         /\ c.promise = c.pr
  /\ (mode = "check" /\ pc = "done") => outcome = checks[1].promise
  /\ (mode = "register" /\ pc = "done") => outcome = regs[1].promise

\* checkDomainAvailability called by the driver failed with the exhaustion error
C10_Witness ==
  /\ mode = "check"
  /\ checks[1].failed = 5
  /\ outcome = Rejected(Error("Failed after 5 retries: Request failed with status code 500"))

\* C11: every call has its own retry state: its retryCount counts its own
\* failed attempts and nothing else, its failed-attempt records are numbered
\* by them, it is still allowed an attempt while fewer than MAX_RETRIES of its
\* own attempts failed, and it is rejected only after MAX_RETRIES failures of
\* its own, with the message of its own latest failure.
C11_OwnRetryState ==
  \A c \in MadeCalls :
    /\ c.retryCount = c.failed
    /\ \A k \in 1..c.failed : c.logs[k] = AttemptLog(k, c.logs[k].detail)
    /\ (MAX_RETRIES > 0 /\ c.failed < MAX_RETRIES) => (InFlight(c) \/ c.responded)
    /\ c.pr.state = "rejected" =>
         /\ c.failed = MAX_RETRIES
         /\ c.pr.value.message = ExhaustedMessage(MAX_RETRIES, ErrorMessage(c.lastFailure))

\* two checks of a batch in progress at once: the first has exhausted its
\* retries on network errors, the second is on its first retry after an
\* error response
C11_Witness ==
  /\ mode = "many"
  /\ Len(domains) = 2
  /\ checks[1].pr.state = "rejected"
  /\ checks[1].lastFailure.kind = "network"
  /\ checks[2].phase = "request"
  /\ checks[2].retryCount = 1
  /\ checks[2].attempts = 2
  /\ checks[2].lastFailure.kind = "http"

\* C12: performMultipleChecks has started the check of every input domain
\* before any of them completes, and once all of them have been answered its
\* result is the list of the answers, the one of index s being that of the
\* check of domain s, however the checks interleaved.
C12_ConcurrentChecksInOrder ==
  mode \in {"multi", "many"} =>
    /\ Len(checks) = Len(domains)
    /\ \A s \in Slots :
         /\ checks[s].op = "check"
         /\ checks[s].domain = domains[s]
         /\ checks[s].invocations = 1
         /\ MAX_RETRIES > 0 => checks[s].attempts >= 1
    /\ (\A s \in Slots : checks[s].responded) =>
         /\ mode = "multi" =>
              outcome = Fulfilled(Arr([s \in Slots |-> checks[s].response]))
         /\ mode = "many" => results = [s \in Slots |-> checks[s].response]

\* performMultipleChecks returned two different answers, the second check
\* having been answered at once and the first one only on its retry
C12_Witness ==
  /\ mode = "multi"
  /\ domains = <<"a.com", "b.com">>
  /\ checks[1].failed = 1
  /\ checks[2].failed = 0
  /\ outcome = Fulfilled(Arr(<<Obj([status |-> "available"]),
                               Obj([status |-> "unavailable"])>>))

\* C13: registerMultipleDomains of an empty list returns normally without any
\* check, registration, transport attempt or log record, and
\* performMultipleChecks of an empty list returns an empty list.
C13_EmptyList ==
  /\ (mode = "many" /\ domains = <<>>) =>
       /\ pc = "done"
       /\ outcome = Fulfilled(Undefined)
       /\ MadeCalls = {}
       /\ checks = <<>> /\ regs = <<>> /\ log = <<>>
  /\ (mode = "multi" /\ domains = <<>>) =>
       /\ pc = "done"
       /\ outcome = Fulfilled(Arr(<<>>))
       /\ MadeCalls = {}

\* registerMultipleDomains([]) has returned
C13_Witness ==
  /\ mode = "many"
  /\ domains = <<>>
  /\ outcome.state = "fulfilled"

\* what a call has been through: attempts issued and answers received
Steps(c) == c.attempts + c.failed + (IF c.responded THEN 1 ELSE 0)

\* a call in flight changes only by one step of its own, and leaves flight
\* only answered or with MAX_RETRIES failed attempts
NoAbort(c, d) ==
  (InFlight(c) /\ d # c) =>
    /\ Steps(d) = Steps(c) + 1
    /\ d.attempts <= MAX_RETRIES
    /\ ~InFlight(d) => (d.responded \/ d.failed = MAX_RETRIES)

NoAbortStep ==
  /\ \A s \in DOMAIN checks : s \in DOMAIN checks' /\ NoAbort(checks[s], checks'[s])
  /\ \A s \in DOMAIN regs : s \in DOMAIN regs' /\ NoAbort(regs[s], regs'[s])
  /\ pc = "done" => pc' = "done"

\* C14: when every attempt is eventually answered and every timer fires,
\* whatever the driver called comes to its end with every call settled, each
\* after at most MAX_RETRIES attempts; no step aborts a call in flight.
C14_RunsToCompletion ==
  /\ [](mode # "idle" => <>(pc = "done" /\ Quiescent))
  /\ [][NoAbortStep]_vars

\* a batch has come to its end after a registration that used all its attempts
C14_Witness ==
  /\ mode = "many"
  /\ pc = "done"
  /\ Quiescent
  /\ \E s \in Slots : regs[s].attempts = MAX_RETRIES /\ regs[s].failed = MAX_RETRIES

----------------------------------------------------------------------------
\* timers of the call that have fired
TimersFired(c) == c.delays - (IF c.phase = "delay" THEN 1 ELSE 0)

\* what the transport and the timers did to the call, the kind of each
\* failure left out
Shape(c) == <<c.failed, c.responded, TimersFired(c)>>

\* what the call did: attempts, delays, log records and their numbers, and
\* how it stands
Observables(c) ==
  <<c.attempts, c.delays, [k \in DOMAIN c.logs |-> <<c.logs[k].event, c.logs[k].n>>],
    c.phase, c.pr.state>>

\* C15: a failure with no response and an error response are treated alike:
\* two calls that met the same number of failures, whatever the kind of each,
\* and otherwise the same answers and timers, made the same number of
\* attempts, started the same number of delays, wrote the same log records
\* up to the failure description, and both succeeded, both were exhausted,
\* or both are still running.
C15_FailureKindsAlike ==
  \A c1 \in MadeCalls, c2 \in MadeCalls :
    Shape(c1) = Shape(c2) => Observables(c1) = Observables(c2)

\* two calls of one batch, exhausted after failures of different kinds
C15_Witness ==
  /\ mode = "multi"
  /\ Len(checks) = 2
  /\ checks[1].pr.state = "rejected" /\ checks[2].pr.state = "rejected"
  /\ checks[1].failed = 2 /\ checks[2].failed = 2
  /\ \A k \in 1..2 : checks[1].logs[k].detail = ErrorMessage([kind |-> "network", status |-> 0, bodyMessage |-> ""])
  /\ \A k \in 1..2 : checks[2].logs[k].detail # checks[1].logs[k].detail

----------------------------------------------------------------------------
\* the description of a failure that the error response's body carries
BodyMessage(failure) ==
  IF failure.kind = "http" THEN failure.bodyMessage ELSE ErrorMessage(failure)

\* C16: when an attempt fails with an error response whose body carries a
\* message, that message is the failure description: the record of the n-th
\* failed attempt reads "Request failed (attempt n): <body message>", and the
\* error of an exhausted call reads "Failed after <MAX_RETRIES> retries:
\* <body message>".
C16_BodyMessageReported ==
  \A c \in MadeCalls :
    (c.failed > 0 /\ c.lastFailure.kind = "http") =>
      /\ c.logs[c.failed] = AttemptLog(c.failed, BodyMessage(c.lastFailure))
      /\ c.pr.state = "rejected" =>
           c.pr.value.message = ExhaustedMessage(MAX_RETRIES, BodyMessage(c.lastFailure))

----------------------------------------------------------------------------
\* neither RETRY_DELAY nor MAX_RETRIES is set in the environment
NoOverrides == env.MAX_RETRIES = Unset /\ env.RETRY_DELAY = Unset

\* the call has ended and none of its attempts was answered
AlwaysFailed(c) == Made(c) /\ ~InFlight(c) /\ ~c.responded

\* C18: with no overrides the retry delay is 200 and the number of retries
\* is 5: every delay of a call lasts 200, and a request whose attempts all
\* fail is attempted exactly 5 times and fails with "Failed after 5 retries:
\* ..." and the last failure's message.
C18_Defaults ==
  NoOverrides =>
    /\ retryDelay = 200
    /\ MAX_RETRIES = 5
    /\ \A c \in MadeCalls :
         /\ \A k \in DOMAIN c.trace :
              c.trace[k].e \in {"delay", "timer"} => c.trace[k].n = 200
         /\ AlwaysFailed(c) =>
              /\ c.attempts = 5
              /\ c.failed = 5
              /\ c.pr = Rejected(Error("Failed after 5 retries: "
                                         \o ErrorMessage(c.lastFailure)))

\* a request made with no overrides whose attempts have all failed
C18_Witness ==
  /\ NoOverrides
  /\ mode = "request"
  /\ AlwaysFailed(checks[1])
  /\ checks[1].attempts = 5
  /\ checks[1].delays = 4
  /\ checks[1].pr.state = "rejected"

----------------------------------------------------------------------------
\* the positions of the trace that hold an event of the given kind
Events(t, e) == {k \in DOMAIN t : t[k].e = e}

\* the event kinds at positions k, k+1, ... of the trace are those of es
Follows(t, k, es) ==
  /\ k + Len(es) <= Len(t)
  /\ \A j \in DOMAIN es : t[k + j].e = es[j]

\* C19: within one performRequest call the events are ordered.  The n-th
\* failed attempt is followed at once by the log record numbered n, so the
\* numbers run 1, 2, ... with no gap or repeat; a delay starts only right
\* after the record of a failed attempt that was not the last one allowed,
\* and its timer and then the next attempt follow it; the record of the
\* MAX_RETRIES-th failure is followed by the terminal record and not by a
\* delay, so an exhausted call has had MAX_RETRIES - 1 delays; the terminal
\* record comes right after the MAX_RETRIES-th failure record and right
\* before the throw, which ends the trace.
C19_EventOrder ==
  \A c \in MadeCalls :
    LET t == c.trace
    IN /\ \A k \in Events(t, "failed") :
            /\ t[k].n = Cardinality({j \in Events(t, "failed") : j <= k})
            /\ k < Len(t) /\ t[k + 1] = Ev("log", t[k].n)
       /\ \A k \in Events(t, "log") :
            /\ t[k].n = Cardinality({j \in Events(t, "log") : j <= k})
            /\ k > 1 /\ t[k - 1] = Ev("failed", t[k].n)
            /\ k < Len(t)
            /\ t[k + 1].e = (IF t[k].n = MAX_RETRIES THEN "terminal" ELSE "delay")
       /\ \A k \in Events(t, "delay") :
            /\ t[k - 1].e = "log" /\ t[k - 1].n < MAX_RETRIES
            /\ k < Len(t) => Follows(t, k, <<"timer", "attempt">>)
       /\ \A k \in Events(t, "attempt") :
            /\ t[k].n = Cardinality({j \in Events(t, "attempt") : j <= k})
            /\ k > 1 => (k > 3 /\ t[k - 1].e = "timer" /\ t[k - 2].e = "delay")
       /\ \A k \in Events(t, "terminal") :
            /\ t[k - 1] = Ev("log", MAX_RETRIES)
            /\ k + 1 = Len(t) /\ t[k + 1].e = "throw"
       /\ c.pr.state = "rejected" <=> (t # <<>> /\ t[Len(t)].e = "throw")
       /\ c.pr.state = "rejected" =>
            /\ Cardinality(Events(t, "delay")) = MAX_RETRIES - 1
            /\ Cardinality(Events(t, "terminal")) = 1
            /\ Cardinality(Events(t, "log")) = MAX_RETRIES

\* an exhausted call that was delayed twice
C19_Witness ==
  \E c \in MadeCalls :
    /\ c.pr.state = "rejected"
    /\ MAX_RETRIES = 3
    /\ [k \in DOMAIN c.trace |-> c.trace[k].e] =
         <<"attempt", "failed", "log", "delay", "timer",
           "attempt", "failed", "log", "delay", "timer",
           "attempt", "failed", "log", "terminal", "throw">>

----------------------------------------------------------------------------
\* C20: whatever MAX_RETRIES is set to (zero, a negative number and text
\* included), a performRequest call hands at least one request to the
\* transport, and it ends only by returning the body of a response the
\* transport gave or by throwing the exhaustion error: it never returns
\* without a response.
C20_AttemptsAndTwoEndings ==
  \A c \in MadeCalls :
    /\ c.attempts >= 1
    /\ c.pr.state = "fulfilled" => (c.responded /\ c.pr.value = c.response)
    /\ c.pr.state = "rejected" =>
         c.pr.value = Error(ExhaustedMessage(MAX_RETRIES, ErrorMessage(c.lastFailure)))

----------------------------------------------------------------------------
\* C17: scheduleRegistration registers exactly one callback with cron,
\* under the given time expression; every firing of it makes one
\* registerSingleDomain call, for the domain and the registration details
\* the callback was bound to; and the promise of no firing is ever rejected
\* (a firing that has ended has fulfilled it), so that no firing leaves an
\* unhandled failure.
C17_ScheduleFiresRegisterOne ==
  /\ mode # "schedule" => (jobs = <<>> /\ firings = <<>>)
  /\ mode = "schedule" =>
       /\ Len(jobs) = 1
       /\ jobs[1].cronTime \in CronTimes
       /\ jobs[1].domain = domains[1]
       /\ Len(checks) = Len(firings) /\ Len(regs) = Len(firings)
       /\ \A f \in DOMAIN firings :
            /\ firings[f].domain = jobs[1].domain
            /\ firings[f].details = jobs[1].details
            /\ checks[f].op = "check" /\ checks[f].domain = jobs[1].domain
            /\ checks[f].invocations = 1
            /\ regs[f].invocations <= 1
            /\ Made(regs[f]) => regs[f].domain = jobs[1].domain
            /\ firings[f].outcome.state # "rejected"
            /\ firings[f].pc = "done" <=> firings[f].outcome = Fulfilled(Undefined)
            /\ firings[f].pc = "done" <=> (~InFlight(checks[f]) /\ ~InFlight(regs[f]))

\* two firings: the check of the first has failed and its failure is
\* logged, the second is registering
C17_Witness ==
  /\ mode = "schedule"
  /\ Len(firings) = 2
  /\ checks[1].pr.state = "rejected"
  /\ firings[1].outcome = Fulfilled(Undefined)
  /\ \E k \in DOMAIN log : log[k] = ErrorLog(jobs[1].domain, checks[1].pr.value)
  /\ firings[2].pc = "register"

----------------------------------------------------------------------------
\* C21: nothing is coalesced or deduplicated.  When a domain stands at two
\* indices of the list given to registerMultipleDomains, each index has its
\* own availability check with its own attempts and retry count; and when
\* the batch has ended normally and both checks answered "available", each
\* index has had its own registerDomain call for that domain, the later
\* index's being started only after the earlier one's had settled.
C21_NoDeduplication ==
  mode = "many" =>
    \A s \in Slots, t \in Slots :
      (s < t /\ domains[s] = domains[t]) =>
        /\ \A u \in {s, t} :
             /\ Made(checks[u]) /\ checks[u].invocations = 1
             /\ checks[u].domain = domains[u]
             /\ checks[u].retryCount = checks[u].failed
             /\ MAX_RETRIES > 0 => checks[u].attempts >= 1
             /\ Cardinality(Events(checks[u].trace, "attempt")) = checks[u].attempts
        /\ (pc = "done" /\ outcome.state = "fulfilled"
              /\ ReportedAvailable(s) /\ ReportedAvailable(t)) =>
             \A u \in {s, t} :
               /\ Made(regs[u]) /\ regs[u].invocations = 1
               /\ regs[u].domain = domains[u]
               /\ regs[u].attempts >= 1
        /\ (Made(regs[t]) /\ ReportedAvailable(s)) => Settled(regs[s])

\* the same domain twice, both available: the first registration has been
\* answered and the second is under way, after checks that went differently
C21_Witness ==
  /\ mode = "many"
  /\ domains = <<"a.com", "a.com">>
  /\ checks[1].failed = 1 /\ checks[2].failed = 0
  /\ ReportedAvailable(1) /\ ReportedAvailable(2)
  /\ regs[1].responded
  /\ regs[2].phase = "request"

----------------------------------------------------------------------------
\* the registerDomain calls that have been made
RegisterCalls == {c \in MadeCalls : c.op = "register"}

\* C22: the data of every registerDomain request carries the domain
\* argument as its domain and the configured key and user as its
\* credentials, whatever keys the registration details have; so in
\* registerSingleDomain and registerMultipleDomains the domain sent for
\* registration is the one whose check answered "available".
C22_RequestCarriesDomain ==
  /\ \A c \in RegisterCalls :
       /\ c.data.domain = c.domain
       /\ c.data.apikey = HEXONET_API_KEY
       /\ c.data.user = HEXONET_USER_ID
  /\ mode \in {"single", "many"} =>
       \A s \in Slots :
         Made(regs[s]) => (ReportedAvailable(s) /\ regs[s].data.domain = checks[s].domain)

----------------------------------------------------------------------------
\* a firing happens in this step
FiringStep == Len(firings') = Len(firings) + 1

\* the calls of firing f and where its registerSingleDomain stands
FiringState(f) == <<checks[f], regs[f], firings[f]>>

\* C23: the schedule does not serialize firings.  While the schedule may
\* still fire, the callback can run whatever the registerSingleDomain calls
\* of earlier firings are doing; a firing starts a check of its own and
\* leaves the calls of the earlier firings as they are; and each call of
\* each firing counts its own failures.
C23_FiringsInterleave ==
  /\ [](mode = "schedule" /\ Len(firings) < MaxFirings
          => ENABLED (\E j \in DOMAIN jobs : Fire(j)))
  /\ [](\A f \in DOMAIN firings :
          /\ checks[f].retryCount = checks[f].failed
          /\ regs[f].retryCount = regs[f].failed)
  /\ [][FiringStep =>
          /\ \A f \in DOMAIN firings :
               <<checks'[f], regs'[f], firings'[f]>> = FiringState(f)
          /\ checks'[Len(firings')].invocations = 1
          /\ checks'[Len(firings')].failed = 0]_vars

\* two firings for the same domain, both with their registration request
\* awaiting the transport
C23_Witness ==
  /\ mode = "schedule"
  /\ Len(firings) = 2
  /\ firings[1].pc = "register" /\ firings[2].pc = "register"
  /\ regs[1].phase = "request" /\ regs[2].phase = "request"
  /\ regs[1].domain = regs[2].domain

----------------------------------------------------------------------------
\* the slots whose registerSingleDomain call, or whose turn in the loop of
\* registerMultipleDomains, has ended
Processed ==
  CASE mode = "single" -> IF pc = "done" THEN {1} ELSE {}
    [] mode = "many" -> 1..(i - 1)
    [] mode = "schedule" -> {f \in DOMAIN firings : firings[f].pc = "done"}
    [] OTHER -> {}

\* the check or the registration of slot s failed: its retries were exhausted
CallFailed(s) == checks[s].pr.state = "rejected" \/ regs[s].pr.state = "rejected"

\* record rec is an outcome slot s may have; errorWhen(s): when it may be an error
OutcomeAllowed(rec, s, errorWhen(_)) ==
  CASE rec.event = "registered successfully" ->
         /\ rec.level = "info"
         /\ regs[s].responded /\ regs[s].pr.state = "fulfilled"
    [] rec.event = "is not available" -> rec.level = "info" /\ ~Made(regs[s])
    [] rec.event = "Error registering domain" -> rec.level = "error" /\ errorWhen(s)
    [] OTHER -> FALSE

\* how many outcome records of the event there are
CountOutcomes(event) == Cardinality({k \in DOMAIN log : log[k].event = event})

\* one outcome record per processed slot, of an allowed kind and tagged with
\* the slot's domain.  Records of a single call or a batch are in slot
\* order; those of a schedule's firings are in the order the firings ended,
\* so they are counted by kind.
OneOutcomeEach(errorWhen(_)) ==
  /\ mode \in {"single", "many", "schedule"} => Len(log) = Cardinality(Processed)
  /\ mode \in {"single", "many"} =>
       \A s \in Processed :
         log[s].domain = domains[s] /\ OutcomeAllowed(log[s], s, errorWhen)
  /\ mode = "schedule" =>
       /\ \A k \in DOMAIN log :
            /\ log[k].domain = jobs[1].domain
            /\ log[k].event \in {"registered successfully", "is not available",
                                  "Error registering domain"}
       /\ CountOutcomes("registered successfully")
            <= Cardinality({f \in Processed : regs[f].responded})
       /\ CountOutcomes("is not available")
            <= Cardinality({f \in Processed : ~Made(regs[f])})
       /\ CountOutcomes("Error registering domain")
            <= Cardinality({f \in Processed : errorWhen(f)})

\* C24: every registerSingleDomain call, and every index the loop
\* of registerMultipleDomains has processed, has recorded exactly one
\* outcome: "registered successfully" (info) only after its registration
\* succeeded, "is not available" (info) only when no registration was
\* attempted, or an error tagged with the domain only when its check or its
\* registration failed.
C24_OneOutcomeLog == OneOutcomeEach(CallFailed)

----------------------------------------------------------------------------
\* the attempts of all the calls of the sequence together
RECURSIVE SumAttempts(_)
SumAttempts(cs) ==
  IF cs = <<>> THEN 0 ELSE Head(cs).attempts + SumAttempts(Tail(cs))

\* C25: the configuration bounds the transport attempts.  One
\* registerSingleDomain call (made directly or by a firing of the schedule)
\* makes at most MAX_RETRIES attempts for its check and at most MAX_RETRIES
\* for its registration, at most 2 * MAX_RETRIES in all; one
\* registerMultipleDomains call over N domains makes at most
\* N * MAX_RETRIES check attempts and at most N * MAX_RETRIES registration
\* attempts.
C25_AttemptsBounded ==
  /\ mode \in {"single", "schedule"} =>
       \A s \in Slots :
         /\ checks[s].attempts <= MAX_RETRIES
         /\ regs[s].attempts <= MAX_RETRIES
         /\ checks[s].attempts + regs[s].attempts <= 2 * MAX_RETRIES
  /\ mode = "many" =>
       /\ SumAttempts(checks) <= Len(domains) * MAX_RETRIES
       /\ SumAttempts(regs) <= Len(domains) * MAX_RETRIES

====
